---- MODULE Spec2Model ----
(***************************************************************************)
(* A model of the analytics core of Campus-Ad-Spend-Efficiency:            *)
(* scripts/analysis_utils.py (ChannelAnalyzer) and the pipeline of         *)
(* scripts/etl_utils.py (DataProcessor and main).                          *)
(*                                                                         *)
(* Numbers.  The program computes on float64 columns of pandas tables.     *)
(* A number is modelled as an exact rational or one of the three IEEE      *)
(* specials NaN, +inf, -inf, with the IEEE rules for the specials and for  *)
(* division by zero.  Rounding is not modelled: an equality of the model   *)
(* is an equality "within floating tolerance" of the program.              *)
(***************************************************************************)
EXTENDS Integers, Sequences, FiniteSets, TLC

VARIABLES
    pc,                    \* position of the caller: "idle", inside a call, "done"
    call,                  \* the operation called and its arguments
    results,               \* the local `results` of attribution_comparison
    dataframe_ctor,        \* what pd.DataFrame(results) does in this build
    ret,                   \* what the call returned or raised
    attribution_results,   \* ChannelAnalyzer.attribution_results
    optimization_results,  \* ChannelAnalyzer.optimization_results
    caller_table,          \* the caller's table object that was passed to the call
    previous,              \* the caller's record of its previous call on the analyzer
    processed_data,        \* DataProcessor.processed_data
    raw_frames,            \* DataProcessor.impressions_df, clicks_df, conversions_df
    exported,              \* the files export_cleaned_data has written
    trace                  \* the steps etl_utils.main has run, in order

\* The variables only etl_utils.main and load_raw_data write.
main_vars == <<raw_frames, exported, trace>>

vars == <<pc, call, results, dataframe_ctor, ret, attribution_results, optimization_results,
          caller_table, previous, processed_data, raw_frames, exported, trace>>

(***************************************************************************)
(* float64 values                                                          *)
(***************************************************************************)
Abs(i) == IF i < 0 THEN -i ELSE i

RECURSIVE Gcd(_, _)
Gcd(a, b) == IF b = 0 THEN a ELSE Gcd(b, a % b)

NaN == [k |-> "nan", n |-> 0, d |-> 1]

PInf == [k |-> "inf", n |-> 1, d |-> 1]

NInf == [k |-> "inf", n |-> -1, d |-> 1]

\* The rational n/d (d # 0) in lowest terms with a positive denominator.
Rat(n, d) ==
    LET g == Gcd(Abs(n), Abs(d))
        s == IF d < 0 THEN -1 ELSE 1
    IN  [k |-> "fin", n |-> (s * n) \div g, d |-> (s * d) \div g]

Num(i) == Rat(i, 1)

IsNaN(x) == x.k = "nan"

IsInf(x) == x.k = "inf"

IsFinite(x) == x.k = "fin"

Sgn(x) == IF x.n > 0 THEN 1 ELSE IF x.n < 0 THEN -1 ELSE 0

InfOf(s) == IF s > 0 THEN PInf ELSE NInf

FNeg(x) == IF IsNaN(x) THEN NaN ELSE [x EXCEPT !.n = -(x.n)]

FAdd(x, y) ==
    IF IsNaN(x) \/ IsNaN(y) THEN NaN
    ELSE IF IsInf(x) /\ IsInf(y) THEN (IF x.n = y.n THEN x ELSE NaN)
    ELSE IF IsInf(x) THEN x
    ELSE IF IsInf(y) THEN y
    ELSE LET g == Gcd(x.d, y.d)
         IN  Rat(x.n * (y.d \div g) + y.n * (x.d \div g), x.d * (y.d \div g))

FSub(x, y) == FAdd(x, FNeg(y))

FMul(x, y) ==
    IF IsNaN(x) \/ IsNaN(y) THEN NaN
    ELSE IF IsInf(x) \/ IsInf(y)
         THEN (IF Sgn(x) * Sgn(y) = 0 THEN NaN ELSE InfOf(Sgn(x) * Sgn(y)))
    ELSE LET g == Gcd(Abs(x.n), y.d)
             h == Gcd(Abs(y.n), x.d)
         IN  Rat((x.n \div g) * (y.n \div h), (x.d \div h) * (y.d \div g))

\* numpy true division: x/0 is +-inf, 0/0 is NaN, and nothing is raised.
FDiv(x, y) ==
    IF IsNaN(x) \/ IsNaN(y) THEN NaN
    ELSE IF IsInf(x) /\ IsInf(y) THEN NaN
    ELSE IF IsInf(x) THEN InfOf(Sgn(x) * (IF Sgn(y) < 0 THEN -1 ELSE 1))
    ELSE IF IsInf(y) THEN Num(0)
    ELSE IF y.n = 0 THEN (IF x.n = 0 THEN NaN ELSE InfOf(Sgn(x)))
    ELSE FMul(x, Rat(y.d, y.n))

\* x < y; every comparison with NaN is False.
FLt(x, y) ==
    IF IsNaN(x) \/ IsNaN(y) THEN FALSE
    ELSE IF x = y THEN FALSE
    ELSE IF IsInf(x) THEN x.n < 0
    ELSE IF IsInf(y) THEN y.n > 0
    ELSE x.n * y.d < y.n * x.d

FGt(x, y) == FLt(y, x)

FLe(x, y) == ~IsNaN(x) /\ ~IsNaN(y) /\ ~FLt(y, x)

(***************************************************************************)
(* pandas columns: a column is a sequence of values, one per row           *)
(***************************************************************************)
Idx(s) == 1..Len(s)

Col(table, name) == [i \in Idx(table) |-> table[i][name]]

RECURSIVE SumUpTo(_, _)
SumUpTo(s, i) ==
    IF i = 0 THEN Num(0)
    ELSE IF IsNaN(s[i]) THEN SumUpTo(s, i - 1)
    ELSE FAdd(SumUpTo(s, i - 1), s[i])

\* Series.sum(): NaN entries are skipped (skipna=True); the empty sum is 0.
Sum(s) == SumUpTo(s, Len(s))

\* Boolean mask helpers: mask.any(), mask.sum()
AnyTrue(mask) == \E i \in Idx(mask) : mask[i]

CountTrue(mask) == Cardinality({i \in Idx(mask) : mask[i]})

\* s[mask].sum(): the sum of the entries a boolean mask selects.
SumWhere(s, mask) == Sum([i \in Idx(s) |-> IF mask[i] THEN s[i] ELSE NaN])

\* The position of row i after DataFrame.sort_values(key, ascending=False):
\* larger keys first, NaN keys last, equal keys in their original order.
SortsBefore(keys, j, i) ==
    IF IsNaN(keys[j]) THEN IsNaN(keys[i]) /\ j < i
    ELSE IsNaN(keys[i]) \/ FGt(keys[j], keys[i]) \/ (keys[j] = keys[i] /\ j < i)

\* A sort_values mutant: ascending=True.
SortAscending(table, name) ==
    LET keys == Col(table, name)
        before(j, i) ==
            IF IsNaN(keys[j]) THEN IsNaN(keys[i]) /\ j < i
            ELSE IsNaN(keys[i]) \/ FLt(keys[j], keys[i]) \/ (keys[j] = keys[i] /\ j < i)
        rank(i) == Cardinality({j \in Idx(table) : before(j, i)})
    IN  [p \in Idx(table) |-> table[CHOOSE i \in Idx(table) : rank(i) = p - 1]]

SortDescending(table, name) ==
    LET keys == Col(table, name)
        rank(i) == Cardinality({j \in Idx(table) : SortsBefore(keys, j, i)})
    IN  [p \in Idx(table) |-> table[CHOOSE i \in Idx(table) : rank(i) = p - 1]]

(***************************************************************************)
(* ChannelAnalyzer.budget_optimization                                     *)
(* channel_metrics is a table with one row per channel (row i is channel   *)
(* i) and the columns cost, efficiency_score and roas.                     *)
(***************************************************************************)
\* A budget_optimization mutant: the current cost is not rescaled to the budget.
current_allocation_unscaled(channel_metrics, total_budget) ==
    Col(channel_metrics, "cost")

\* current_budget / current_total * total_budget
current_allocation(channel_metrics, total_budget) ==
    LET current_budget == Col(channel_metrics, "cost")
        current_total == Sum(current_budget)
    IN  [i \in Idx(channel_metrics) |->
            FMul(FDiv(current_budget[i], current_total), total_budget)]

efficiency_weights(channel_metrics) ==
    LET score == Col(channel_metrics, "efficiency_score")
        total == Sum(score)
    IN  [i \in Idx(channel_metrics) |-> FDiv(score[i], total)]

naive_allocation(channel_metrics, total_budget) ==
    LET w == efficiency_weights(channel_metrics)
    IN  [i \in Idx(channel_metrics) |-> FMul(w[i], total_budget)]

min_budget(total_budget, min_budget_pct) == FMul(total_budget, min_budget_pct)

channels_below_min(allocation, minimum) ==
    [i \in Idx(allocation) |-> FLt(allocation[i], minimum)]

\* A budget_optimization mutant: the clamped channels' budget is not subtracted.
remaining_budget_whole(total_budget, below, minimum) == total_budget

remaining_budget(total_budget, below, minimum) ==
    FSub(total_budget, FMul(Num(CountTrue(below)), minimum))

\* A budget_optimization mutant: after the redistribution, the channels it
\* left below the minimum are set to the minimum as well.
optimal_allocation_reclamped(channel_metrics, total_budget, min_budget_pct) ==
    LET w == efficiency_weights(channel_metrics)
        naive == naive_allocation(channel_metrics, total_budget)
        minimum == min_budget(total_budget, min_budget_pct)
        below == channels_below_min(naive, minimum)
        remaining == [i \in Idx(naive) |-> ~below[i]]
        rest == remaining_budget(total_budget, below, minimum)
        wsum == SumWhere(w, remaining)
        redistributed(i) == FMul(FDiv(w[i], wsum), rest)
    IN  IF ~AnyTrue(below) THEN naive
        ELSE [i \in Idx(naive) |->
                IF below[i] \/ FLt(redistributed(i), minimum) THEN minimum
                ELSE redistributed(i)]

\* The one-pass minimum-budget adjustment of the naive allocation.
optimal_allocation(channel_metrics, total_budget, min_budget_pct) ==
    LET w == efficiency_weights(channel_metrics)
        naive == naive_allocation(channel_metrics, total_budget)
        minimum == min_budget(total_budget, min_budget_pct)
        below == channels_below_min(naive, minimum)
        remaining == [i \in Idx(naive) |-> ~below[i]]
        rest == remaining_budget(total_budget, below, minimum)
        wsum == SumWhere(w, remaining)
    IN  IF ~AnyTrue(below) THEN naive
        ELSE [i \in Idx(naive) |->
                IF below[i] THEN minimum
                ELSE FMul(FDiv(w[i], wsum), rest)]

\* A _create_reallocation_summary mutant: the thresholds are inclusive.
recommendation_inclusive(change_pct) ==
    IF FLe(Num(10), change_pct) THEN "increase"
    ELSE IF FLe(change_pct, Num(-10)) THEN "decrease"
    ELSE "maintain"

recommendation(change_pct) ==
    IF FGt(change_pct, Num(10)) THEN "increase"
    ELSE IF FLt(change_pct, Num(-10)) THEN "decrease"
    ELSE "maintain"

_create_reallocation_summary(current, optimal, metrics) ==
    LET row(i) ==
            LET change_pct ==
                    FMul(FDiv(FSub(optimal[i], current[i]), current[i]), Num(100))
            IN  [channel |-> i,
                 current_budget |-> current[i],
                 optimal_budget |-> optimal[i],
                 change_amount |-> FSub(optimal[i], current[i]),
                 change_pct |-> change_pct,
                 efficiency_score |-> metrics[i].efficiency_score,
                 current_roas |-> metrics[i].roas,
                 recommendation |-> recommendation(change_pct)]
    IN  SortDescending([i \in Idx(metrics) |-> row(i)], "change_pct")

budget_optimization(channel_metrics, total_budget, min_budget_pct) ==
    LET current == current_allocation(channel_metrics, total_budget)
        optimal == optimal_allocation(channel_metrics, total_budget, min_budget_pct)
        current_total == Sum(Col(channel_metrics, "cost"))
        allocation_change == [i \in Idx(channel_metrics) |-> FSub(optimal[i], current[i])]
        expected_improvement ==
            FDiv(Sum([i \in Idx(channel_metrics) |->
                        FMul(allocation_change[i], channel_metrics[i].efficiency_score)]),
                 current_total)
    IN  [status |-> "ok",
         current_allocation |-> current,
         optimal_allocation |-> optimal,
         allocation_change |-> allocation_change,
         allocation_change_pct |->
            [i \in Idx(channel_metrics) |->
                FMul(FDiv(allocation_change[i], current[i]), Num(100))],
         expected_improvement_pct |-> FMul(expected_improvement, Num(100)),
         reallocation_summary |->
            _create_reallocation_summary(current, optimal, channel_metrics)]

\* The table objects at the end of budget_optimization: the clamped entries
\* are assigned on optimal_allocation, a Series built by the multiplication.
budget_optimization_objects(channel_metrics, total_budget, min_budget_pct) ==
    [channel_metrics |-> channel_metrics,
     current_budget |-> Col(channel_metrics, "cost"),
     optimal_allocation |-> optimal_allocation(channel_metrics, total_budget, min_budget_pct)]

(***************************************************************************)
(* ChannelAnalyzer attribution models                                      *)
(* journey_df is a table with one row per touchpoint and the columns       *)
(* user_id, channel (None when missing), timestamp, conversion_timestamp   *)
(* (NaT, modelled as NaN, when missing) and the value column.  Timestamps  *)
(* count units of 12 hours.  A grouped result is a function from the group *)
(* keys to values; groupby drops the rows whose key is None.               *)
(***************************************************************************)
None == "None"

RECURSIVE SumOver(_, _)
\* f[S].sum() for a set S of positions or keys: NaN skipped, empty sum 0.
SumOver(f, S) ==
    IF S = {} THEN Num(0)
    ELSE LET i == CHOOSE x \in S : TRUE
         IN  IF IsNaN(f[i]) THEN SumOver(f, S \ {i})
             ELSE FAdd(f[i], SumOver(f, S \ {i}))

\* Series.max(): NaN (NaT) skipped; NaN when nothing is left.
MaxOver(f, S) ==
    LET present == {i \in S : ~IsNaN(f[i])}
    IN  IF present = {} THEN NaN
        ELSE f[CHOOSE i \in present : \A j \in present : FLe(f[j], f[i])]

\* Series.mean() of the values f[k], k in S, NaN skipped.
MeanOver(f, S) ==
    LET present == {k \in S : ~IsNaN(f[k])}
    IN  FDiv(SumOver(f, present), Num(Cardinality(present)))

ChannelKeys(df) == {df[i].channel : i \in Idx(df)} \ {None}

UserKeys(df) == {df[i].user_id : i \in Idx(df)}

UserRows(df, u) == {i \in Idx(df) : df[i].user_id = u}

ChannelRows(df, c) == {i \in Idx(df) : df[i].channel = c}

\* A _last_touch_attribution mutant: the values are averaged, not summed.
_last_touch_attribution_mean(df, value_col) ==
    [c \in ChannelKeys(df) |-> MeanOver(Col(df, value_col), ChannelRows(df, c))]

\* df.groupby('channel').agg({value_col: 'sum'})
_last_touch_attribution(df, value_col) ==
    [c \in ChannelKeys(df) |-> SumOver(Col(df, value_col), ChannelRows(df, c))]

\* df.groupby('user_id').first(): per user and per column, the first value in
\* row order that is not missing.
GroupFirst(df, u, value_col) ==
    LET withChannel == {i \in UserRows(df, u) : df[i].channel # None}
        withValue == {i \in UserRows(df, u) : ~IsNaN(df[i][value_col])}
        lowest(S) == CHOOSE i \in S : \A j \in S : i <= j
    IN  [channel |-> IF withChannel = {} THEN None ELSE df[lowest(withChannel)].channel,
         value |-> IF withValue = {} THEN NaN ELSE df[lowest(withValue)][value_col]]

_first_touch_attribution(df, value_col) ==
    LET first_touch == [u \in UserKeys(df) |-> GroupFirst(df, u, value_col)]
        keys == {first_touch[u].channel : u \in UserKeys(df)} \ {None}
    IN  [c \in keys |->
            SumOver([u \in UserKeys(df) |-> first_touch[u].value],
                    {u \in UserKeys(df) : first_touch[u].channel = c})]

\* df.groupby('user_id')['channel'].count(): the rows with a channel.
user_touchpoint_counts(df) ==
    [u \in UserKeys(df) |->
        Cardinality({i \in UserRows(df, u) : df[i].channel # None})]

\* A _linear_attribution mutant: every row is divided by the number of rows
\* of the whole table.
linear_attributed_value_global(df, value_col) ==
    [i \in Idx(df) |-> FDiv(df[i][value_col], Num(Len(df)))]

\* row[value_col] / user_touchpoint_counts[row['user_id']]
linear_attributed_value(df, value_col) ==
    LET counts == user_touchpoint_counts(df)
    IN  [i \in Idx(df) |-> FDiv(df[i][value_col], Num(counts[df[i].user_id]))]

_linear_attribution(df, value_col) ==
    [c \in ChannelKeys(df) |->
        SumOver(linear_attributed_value(df, value_col), ChannelRows(df, c))]

decay_rate == 7

\* df.sort_values(['user_id', 'timestamp'])
sort_by_user_timestamp(df) ==
    LET before(j, i) ==
            \/ df[j].user_id < df[i].user_id
            \/ /\ df[j].user_id = df[i].user_id
               /\ \/ FLt(df[j].timestamp, df[i].timestamp)
                  \/ (df[j].timestamp = df[i].timestamp /\ j < i)
        rank(i) == Cardinality({j \in Idx(df) : before(j, i)})
    IN  [p \in Idx(df) |-> df[CHOOSE i \in Idx(df) : rank(i) = p - 1]]

\* (max_time - timestamp).dt.days: whole days, rounded down; NaN for NaT.
days_to_conversion(max_time, timestamp) ==
    LET delta == FSub(max_time, timestamp)
    IN  IF IsNaN(delta) THEN NaN ELSE Num(delta.n \div 2)

\* np.exp(-days / rate) for rate = 7, rounded to sixteenths.
exp_decay(days, rate) ==
    IF IsNaN(days) THEN NaN
    ELSE CASE days.n = -1 -> Rat(18, 16)
           [] days.n = 0 -> Rat(16, 16)
           [] days.n = 1 -> Rat(14, 16)
           [] days.n = 2 -> Rat(12, 16)
           [] days.n = 3 -> Rat(10, 16)
           [] days.n = 4 -> Rat(9, 16)
           [] days.n = 5 -> Rat(8, 16)
           [] days.n = 6 -> Rat(7, 16)
           [] days.n = 7 -> Rat(6, 16)

\* calculate_time_weights(group) for the group of user u: the time_weight of
\* each of the user's rows.
calculate_time_weights(df, u, rate) ==
    LET group == UserRows(df, u)
        max_time == MaxOver(Col(df, "conversion_timestamp"), group)
        time_weight ==
            [i \in group |->
                exp_decay(days_to_conversion(max_time, df[i].timestamp), rate)]
        total_weight == SumOver(time_weight, group)
    IN  IF Cardinality(group) = 1 THEN [i \in group |-> Num(1)]
        ELSE [i \in group |-> FDiv(time_weight[i], total_weight)]

\* The time_weight column of df_weighted, by row of the sorted table.
time_weights(df_sorted, rate) ==
    [i \in Idx(df_sorted) |->
        calculate_time_weights(df_sorted, df_sorted[i].user_id, rate)[i]]

_time_decay_attribution(df, value_col, rate) ==
    LET df_sorted == sort_by_user_timestamp(df)
        w == time_weights(df_sorted, rate)
        attributed_value ==
            [i \in Idx(df_sorted) |-> FMul(df_sorted[i][value_col], w[i])]
    IN  [c \in ChannelKeys(df_sorted) |->
            SumOver(attributed_value, ChannelRows(df_sorted, c))]

ModelNames == {"last_touch", "first_touch", "linear", "time_decay"}

\* A mutant of the loop over the models: the results stored by an earlier call
\* are handed back.
model_results_kept(journey_df, value_col) ==
    IF attribution_results # <<>> THEN attribution_results.model_results
    ELSE [last_touch |-> _last_touch_attribution(journey_df, value_col),
          first_touch |-> _first_touch_attribution(journey_df, value_col),
          linear |-> _linear_attribution(journey_df, value_col),
          time_decay |-> _time_decay_attribution(journey_df, value_col, decay_rate)]

\* The loop over the four models: results[model_name] = model_func(journey_df, col)
model_results(journey_df, value_col) ==
    [last_touch |-> _last_touch_attribution(journey_df, value_col),
     first_touch |-> _first_touch_attribution(journey_df, value_col),
     linear |-> _linear_attribution(journey_df, value_col),
     time_decay |-> _time_decay_attribution(journey_df, value_col, decay_rate)]

\* A mutant of DataFrame.copy: the same object is handed back.
DataFrame_alias(object) == object

\* df.copy(): a new object, here the one bound to df_attributed.
DataFrame_copy(object) == "df_attributed"

\* The table objects at the end of _linear_attribution: the column
\* attributed_value is assigned on the object bound to df_attributed.
_linear_attribution_objects(df, value_col) ==
    LET df_attributed == DataFrame_copy("df")
        objects == [o \in {"df", df_attributed} |-> df]
        attributed == linear_attributed_value(df, value_col)
    IN  [objects EXCEPT ![df_attributed] =
            [i \in Idx(df) |-> [attributed_value |-> attributed[i]] @@ df[i]]]

\* The table objects at the end of _time_decay_attribution: sort_values and
\* groupby().apply() build new tables, and the weight columns are assigned on
\* the groups taken from df_sorted.
_time_decay_attribution_objects(df, value_col, rate) ==
    LET df_sorted == sort_by_user_timestamp(df)
        w == time_weights(df_sorted, rate)
    IN  [df |-> df,
         df_sorted |-> df_sorted,
         df_weighted |->
            [i \in Idx(df_sorted) |->
                [time_weight |-> w[i],
                 attributed_value |-> FMul(df_sorted[i][value_col], w[i])] @@ df_sorted[i]]]

\* journey_df as the four models leave it: last-touch and first-touch only
\* read it.
journey_df_after_models(journey_df, value_col) ==
    LET after_linear == _linear_attribution_objects(journey_df, value_col)["df"]
    IN  _time_decay_attribution_objects(after_linear, value_col, decay_rate)["df"]

\* Series.cov() (ddof = 1) of f and g over the keys S where both have a
\* value; Series.var() is the covariance of a column with itself.
CovOver(f, g, S) ==
    LET present == {k \in S : ~IsNaN(f[k]) /\ ~IsNaN(g[k])}
        count == Num(Cardinality(present))
        mf == FDiv(SumOver(f, present), count)
        mg == FDiv(SumOver(g, present), count)
        products == [k \in present |-> FMul(FSub(f[k], mf), FSub(g[k], mg))]
    IN  FDiv(SumOver(products, present), Num(Cardinality(present) - 1))

\* pd.DataFrame(results): one row per channel of any model, NaN where a model
\* has no entry for the channel; then the variance and mean columns.
comparison_df(res) ==
    LET index == UNION {DOMAIN res[m] : m \in ModelNames}
        cell(c) == [m \in ModelNames |-> IF c \in DOMAIN res[m] THEN res[m][c] ELSE NaN]
    IN  [c \in index |->
            [models |-> cell(c),
             variance |-> CovOver(cell(c), cell(c), ModelNames),
             mean_attribution |-> MeanOver(cell(c), ModelNames)]]

\* comparison_df[models].corr(): Pearson's r of two models over the channels
\* where both have a value.  r = cov / sqrt(var_a * var_b) is irrational in
\* general; the entry holds sign(r) * r^2, which determines r.
correlation_matrix(comparison) ==
    LET index == DOMAIN comparison
        column == [m \in ModelNames |-> [c \in index |-> comparison[c].models[m]]]
        r2(a, b) ==
            LET both == {c \in index : ~IsNaN(column[a][c]) /\ ~IsNaN(column[b][c])}
                cov == CovOver(column[a], column[b], both)
                square == FMul(FDiv(cov, CovOver(column[a], column[a], both)),
                               FDiv(cov, CovOver(column[b], column[b], both)))
            IN  IF FLt(cov, Num(0)) THEN FNeg(square) ELSE square
        pairs == {p \in SUBSET ModelNames : Cardinality(p) \in {1, 2}}
        entry == [p \in pairs |->
                    LET a == CHOOSE m \in p : TRUE
                        b == CHOOSE m \in p : p = {a, m}
                    IN  r2(a, b)]
    IN  [a \in ModelNames |-> [b \in ModelNames |-> entry[{a, b}]]]

\* What attribution_comparison stores in self.attribution_results.
stored_attribution_results(res) ==
    LET comparison == comparison_df(res)
    IN  [model_results |-> res,
         comparison |-> comparison,
         correlation_matrix |-> correlation_matrix(comparison)]

(***************************************************************************)
(* ChannelAnalyzer.calculate_efficiency_scores                             *)
(* df is a table with the columns channel, cost, revenue, conversions,     *)
(* clicks and impressions.                                                 *)
(***************************************************************************)
\* Series.count() of a group: the entries that are not missing.
CountOver(f, S) == Num(Cardinality({i \in S : ~IsNaN(f[i])}))

\* Series.min(), np.nanmin: NaN skipped; NaN when nothing is left.
MinOver(f, S) ==
    LET present == {i \in S : ~IsNaN(f[i])}
    IN  IF present = {} THEN NaN
        ELSE f[CHOOSE i \in present : \A j \in present : FLe(f[i], f[j])]

\* df.groupby('channel').agg(...) and the derived metrics, by channel.
channel_metrics_of(df) ==
    [c \in ChannelKeys(df) |->
        LET rows == ChannelRows(df, c)
            cost == SumOver(Col(df, "cost"), rows)
            revenue == SumOver(Col(df, "revenue"), rows)
            conversions == SumOver(Col(df, "conversions"), rows)
            clicks == SumOver(Col(df, "clicks"), rows)
            impressions == CountOver(Col(df, "impressions"), rows)
            cost_per_conversion == FDiv(cost, conversions)
        IN  [cost |-> cost,
             revenue |-> revenue,
             conversions |-> conversions,
             clicks |-> clicks,
             impressions |-> impressions,
             roas |-> FDiv(revenue, cost),
             cost_per_conversion |-> cost_per_conversion,
             conversion_rate |-> FDiv(conversions, clicks),
             ctr |-> FDiv(clicks, impressions),
             cost_efficiency |-> FDiv(Num(1), cost_per_conversion)]]

scoring_metrics == {"roas", "cost_efficiency", "conversion_rate", "ctr"}

\* MinMaxScaler validates its input: no rows, or an infinite entry, is a
\* ValueError; NaN entries are let through.
scaler_rejects(channel_metrics) ==
    \/ DOMAIN channel_metrics = {}
    \/ \E c \in DOMAIN channel_metrics, m \in scoring_metrics :
          IsInf(channel_metrics[c][m])

\* MinMaxScaler's scale_ of one column: 1 / (max - min), and 1 where the
\* column is constant (max - min = 0).
min_max_scale(data_min, data_max) ==
    LET data_range == FSub(data_max, data_min)
    IN  IF data_range = Num(0) THEN Num(1) ELSE FDiv(Num(1), data_range)

\* MinMaxScaler().fit_transform(channel_metrics[scoring_metrics]):
\* X * scale_ + min_, with min_ = 0 - data_min * scale_.
normalized_scores(channel_metrics) ==
    LET index == DOMAIN channel_metrics
        scaled(m) ==
            LET column == [c \in index |-> channel_metrics[c][m]]
                data_min == MinOver(column, index)
                scale == min_max_scale(data_min, MaxOver(column, index))
            IN  [c \in index |->
                    FAdd(FMul(column[c], scale), FSub(Num(0), FMul(data_min, scale)))]
    IN  [m \in scoring_metrics |-> scaled(m)]

weights ==
    [roas |-> Rat(4, 10), cost_efficiency |-> Rat(3, 10),
     conversion_rate |-> Rat(2, 10), ctr |-> Rat(1, 10)]

\* sum(normalized_scores[metric] * weight for metric, weight in weights.items())
efficiency_score(normalized, c) ==
    FAdd(FAdd(FAdd(FAdd(Num(0),
                        FMul(normalized["roas"][c], weights["roas"])),
                   FMul(normalized["cost_efficiency"][c], weights["cost_efficiency"])),
              FMul(normalized["conversion_rate"][c], weights["conversion_rate"])),
         FMul(normalized["ctr"][c], weights["ctr"]))

calculate_efficiency_scores(df) ==
    LET channel_metrics == channel_metrics_of(df)
        normalized == normalized_scores(channel_metrics)
    IN  IF scaler_rejects(channel_metrics)
        THEN [status |-> "raise", error |-> "ValueError"]
        ELSE [status |-> "ok",
              table |-> [c \in DOMAIN channel_metrics |->
                            [cost |-> channel_metrics[c].cost,
                             revenue |-> channel_metrics[c].revenue,
                             conversions |-> channel_metrics[c].conversions,
                             clicks |-> channel_metrics[c].clicks,
                             impressions |-> channel_metrics[c].impressions,
                             roas |-> channel_metrics[c].roas,
                             cost_per_conversion |-> channel_metrics[c].cost_per_conversion,
                             conversion_rate |-> channel_metrics[c].conversion_rate,
                             ctr |-> channel_metrics[c].ctr,
                             cost_efficiency |-> channel_metrics[c].cost_efficiency,
                             efficiency_score |-> efficiency_score(normalized, c)]]]

\* The table objects at the end of calculate_efficiency_scores: the derived
\* columns are assigned on channel_metrics, the table built by the groupby.
calculate_efficiency_scores_objects(df) ==
    [df |-> df, channel_metrics |-> channel_metrics_of(df)]

(***************************************************************************)
(* ChannelAnalyzer.pareto_analysis                                         *)
(* df is a table with the entity column `channel` and the value column     *)
(* `revenue`.                                                              *)
(***************************************************************************)
\* df.groupby(entity_col)[value_col].sum(), by entity.
entity_sums(df, value_col, entity_col) ==
    LET keys == {df[i][entity_col] : i \in Idx(df)} \ {None}
    IN  [e \in keys |->
            SumOver(Col(df, value_col), {i \in Idx(df) : df[i][entity_col] = e})]

\* The orders sort_values(ascending=False) can give the entities: larger sums
\* first, equal sums in either order (the default sort is not stable).
DescendingOrders(sums) ==
    {order \in [1..Cardinality(DOMAIN sums) -> DOMAIN sums] :
        /\ \A p, q \in DOMAIN order : p # q => order[p] # order[q]
        /\ \A p \in DOMAIN order : p > 1 => FLe(sums[order[p]], sums[order[p - 1]])}

\* Series.cumsum(): the running sum, NaN entries skipped and left NaN.
cumsum(s) == [p \in Idx(s) |-> IF IsNaN(s[p]) THEN NaN ELSE SumUpTo(s, p)]

\* Series.iloc[i] with Python's indexing: i = -1 is the last entry.
iloc(s, i) == IF i < 0 THEN s[Len(s) + 1 + i] ELSE s[i + 1]

\* pareto_analysis with the entities sorted into `order`.
pareto_analysis(df, value_col, entity_col, order) ==
    LET sums == entity_sums(df, value_col, entity_col)
        entity_values == [p \in DOMAIN order |-> sums[order[p]]]
        total_value == Sum(entity_values)
        entity_values_pct ==
            cumsum([p \in DOMAIN order |->
                        FMul(FDiv(entity_values[p], total_value), Num(100))])
        top == {p \in DOMAIN order : FLe(entity_values_pct[p], Num(80))}
        top_entity_count == Cardinality(top)
        total_entity_count == Len(order)
        position(k) == CHOOSE p \in top : Cardinality({q \in top : q < p}) = k - 1
    IN  IF total_entity_count = 0
        THEN [status |-> "raise", error |-> "ZeroDivisionError"]
        ELSE [status |-> "ok",
              top_entities |-> [k \in 1..top_entity_count |-> order[position(k)]],
              top_entity_count |-> top_entity_count,
              total_entity_count |-> total_entity_count,
              top_entity_percentage |->
                  FMul(FDiv(Num(top_entity_count), Num(total_entity_count)), Num(100)),
              top_entity_value_percentage |-> iloc(entity_values_pct, top_entity_count - 1),
              entity_values |-> [p \in DOMAIN order |->
                                    [entity |-> order[p], value |-> entity_values[p]]],
              cumulative_percentages |-> entity_values_pct]

(***************************************************************************)
(* scripts/etl_utils.py (DataProcessor): the user journey and the channel  *)
(* metrics.  The tables carry the columns these two steps read or derive;  *)
(* a missing identifier or channel is None, a missing number or time NaN.  *)
(* Times count minutes.                                                    *)
(***************************************************************************)
\* A load_raw_data mutant: the except branch returns True as well.
load_raw_data_true(files, unreadable) ==
    LET order == <<"raw_impressions.csv", "raw_clicks.csv", "raw_conversions.csv">>
        attribute == <<"impressions_df", "clicks_df", "conversions_df">>
        read == {k \in 1..3 : \A j \in 1..k : order[j] \notin unreadable}
    IN  [frames |-> [a \in {attribute[k] : k \in read} |->
                        files[order[CHOOSE k \in read : attribute[k] = a]]],
         value |-> TRUE]

\* load_raw_data: the three files are read in turn into impressions_df,
\* clicks_df and conversions_df; the first read that raises ends the try block,
\* the exception is logged and False is returned.
load_raw_data(files, unreadable) ==
    LET order == <<"raw_impressions.csv", "raw_clicks.csv", "raw_conversions.csv">>
        attribute == <<"impressions_df", "clicks_df", "conversions_df">>
        read == {k \in 1..3 : \A j \in 1..k : order[j] \notin unreadable}
    IN  [frames |-> [a \in {attribute[k] : k \in read} |->
                        files[order[CHOOSE k \in read : attribute[k] = a]]],
         value |-> read = 1..3]

RECURSIVE DropDuplicatesFrom(_, _, _)
\* df.drop_duplicates(subset=[key]) from row i on: the first row of every key.
DropDuplicatesFrom(df, key, i) ==
    IF i > Len(df) THEN <<>>
    ELSE (IF \E j \in 1..(i - 1) : df[j][key] = df[i][key] THEN <<>> ELSE <<df[i]>>)
            \o DropDuplicatesFrom(df, key, i + 1)

drop_duplicates(df, key) == DropDuplicatesFrom(df, key, 1)

\* The r-th smallest of the values f[i], i in S, that are not missing.
KthSmallest(f, S, r) ==
    LET present == {i \in S : ~IsNaN(f[i])}
    IN  f[CHOOSE i \in present :
            /\ Cardinality({j \in present : FLt(f[j], f[i])}) < r
            /\ r <= Cardinality({j \in present : FLe(f[j], f[i])})]

\* Series.quantile(q) for q = percent / 100, with linear interpolation between
\* the two nearest values; NaN for a series without values.
Quantile(f, percent) ==
    LET present == {i \in Idx(f) : ~IsNaN(f[i])}
        n == Cardinality(present)
        below == ((n - 1) * percent) \div 100
        fraction == Rat(((n - 1) * percent) % 100, 100)
        low == KthSmallest(f, present, below + 1)
    IN  IF n = 0 THEN NaN
        ELSE IF fraction = Num(0) THEN low
        ELSE FAdd(low, FMul(fraction, FSub(KthSmallest(f, present, below + 2), low)))

\* Series.median()
Median(f) == Quantile(f, 50)

\* datetime.now(), in the minutes the timestamps count.
now == Num(1000)

\* A missing identifier or channel is the string "None".
_validate_impressions(df) ==
    SelectSeq(df, LAMBDA r :
        /\ r.impression_id # "None" /\ r.channel # "None" /\ ~IsNaN(r.timestamp)
        /\ FLe(Num(0), r.cost)
        /\ FLe(r.timestamp, now))

_validate_clicks(df) ==
    SelectSeq(df, LAMBDA r :
        /\ r.click_id # "None" /\ r.impression_id # "None" /\ ~IsNaN(r.click_timestamp)
        /\ FLe(r.click_timestamp, now))

_validate_conversions(df) ==
    LET kept == SelectSeq(df, LAMBDA r :
                    /\ r.conversion_id # "None" /\ r.click_id # "None"
                    /\ ~IsNaN(r.conversion_timestamp)
                    /\ FLe(r.conversion_timestamp, now))
        q1 == Quantile(Col(kept, "conversion_value"), 1)
        q99 == Quantile(Col(kept, "conversion_value"), 99)
    IN  SelectSeq(kept, LAMBDA r :
            FLe(q1, r.conversion_value) /\ FLe(r.conversion_value, q99))

\* clean_impressions_data on the columns the model carries: a missing cost is
\* filled with the median, duplicates of impression_id are removed and the
\* rows are validated.
clean_impressions_data(impressions_df) ==
    LET median == Median(Col(impressions_df, "cost"))
        filled == [i \in Idx(impressions_df) |->
                    IF IsNaN(impressions_df[i].cost)
                    THEN [impressions_df[i] EXCEPT !.cost = median]
                    ELSE impressions_df[i]]
    IN  _validate_impressions(drop_duplicates(filled, "impression_id"))

clean_clicks_data(clicks_df) == _validate_clicks(drop_duplicates(clicks_df, "click_id"))

\* clean_conversions_data: rows without a conversion value or with a value
\* <= 0 are removed, then the duplicates of conversion_id, then the rows that
\* fail the validation.
clean_conversions_data(conversions_df) ==
    LET valued == SelectSeq(conversions_df, LAMBDA r : FGt(r.conversion_value, Num(0)))
    IN  _validate_conversions(drop_duplicates(valued, "conversion_id"))

RECURSIVE MergeFrom(_, _, _, _, _)
\* pd.merge(left, right, on=key, how='left') from left row i on: every left
\* row in order, once per right row with an equal key, or once with the right
\* columns missing.
MergeFrom(left, right, key, missing, i) ==
    IF i > Len(left) THEN <<>>
    ELSE LET matches == SelectSeq(right, LAMBDA r : r[key] = left[i][key])
             rows == IF matches = <<>> THEN <<left[i] @@ missing>>
                     ELSE [j \in Idx(matches) |-> left[i] @@ matches[j]]
         IN  rows \o MergeFrom(left, right, key, missing, i + 1)

LeftMerge(left, right, key, missing) == MergeFrom(left, right, key, missing, 1)

\* The columns of clicks and conversions as they are named in the journey: a
\* column found on both sides of the first merge gets the suffixes _imp and
\* _click.
clicks_columns(clicks) ==
    [i \in Idx(clicks) |->
        [impression_id |-> clicks[i].impression_id,
         click_id |-> clicks[i].click_id,
         channel_click |-> clicks[i].channel,
         click_timestamp |-> clicks[i].click_timestamp]]

impressions_columns(impressions) ==
    [i \in Idx(impressions) |->
        [impression_id |-> impressions[i].impression_id,
         channel_imp |-> impressions[i].channel,
         timestamp |-> impressions[i].timestamp,
         cost |-> impressions[i].cost]]

create_user_journey(data) ==
    LET impressions_clicks ==
            LeftMerge(impressions_columns(data.impressions), clicks_columns(data.clicks),
                      "impression_id",
                      [click_id |-> None, channel_click |-> None, click_timestamp |-> NaN])
        merged ==
            LeftMerge(impressions_clicks, data.conversions, "click_id",
                      [conversion_id |-> None, channel |-> None,
                       conversion_timestamp |-> NaN, conversion_value |-> NaN])
    IN  [i \in Idx(merged) |->
            merged[i] @@
            [click_delay_minutes |-> FSub(merged[i].click_timestamp, merged[i].timestamp),
             conversion_delay_hours |->
                FDiv(FSub(merged[i].conversion_timestamp, merged[i].click_timestamp), Num(60)),
             converted |-> merged[i].conversion_id # None]]

\* A calculate_channel_metrics mutant: 'count' counts the rows of the group.
CountNotNull_rows(f, S) == Num(Cardinality(S))

\* Series.count() of a group of an identifier column.
CountNotNull(f, S) == Num(Cardinality({i \in S : f[i] # None}))

\* A calculate_channel_metrics mutant: the infinities are kept.
replace_inf_kept(x) == x

\* replace([np.inf, -np.inf], np.nan) on one entry.
replace_inf(x) == IF IsInf(x) THEN NaN ELSE x

calculate_channel_metrics(journey_df) ==
    LET keys == {journey_df[i].channel_imp : i \in Idx(journey_df)} \ {None}
        metrics(c) ==
            LET rows == {i \in Idx(journey_df) : journey_df[i].channel_imp = c}
                impressions == CountNotNull(Col(journey_df, "impression_id"), rows)
                clicks == CountNotNull(Col(journey_df, "click_id"), rows)
                conversions == CountNotNull(Col(journey_df, "conversion_id"), rows)
                cost == SumOver(Col(journey_df, "cost"), rows)
                revenue == SumOver(Col(journey_df, "conversion_value"), rows)
            IN  [channel |-> c,
                 impressions |-> replace_inf(impressions),
                 clicks |-> replace_inf(clicks),
                 conversions |-> replace_inf(conversions),
                 cost |-> replace_inf(cost),
                 revenue |-> replace_inf(revenue),
                 ctr |-> replace_inf(FMul(FDiv(clicks, impressions), Num(100))),
                 conversion_rate |-> replace_inf(FMul(FDiv(conversions, clicks), Num(100))),
                 cost_per_click |-> replace_inf(FDiv(cost, clicks)),
                 cost_per_conversion |-> replace_inf(FDiv(cost, conversions)),
                 roas |-> replace_inf(FDiv(revenue, cost)),
                 profit |-> replace_inf(FSub(revenue, cost))]
    IN  [c \in keys |-> metrics(c)]

(***************************************************************************)
(* Inputs of the checked calls                                             *)
(***************************************************************************)
MaxChannels == 3

CostValues == {Num(0), Num(100), Num(200)}

ScoreValues == {Num(0), Rat(1, 2), Num(1)}

RoasValues == {Num(2)}

BudgetValues == {Num(-1000), Num(0), Num(1000)}

MinBudgetPctValues == {Rat(1, 20), Rat(1, 4), Rat(1, 2)}

MetricsRows == [cost : CostValues, efficiency_score : ScoreValues, roas : RoasValues]

\* The three-channel table of the documented scenario.
ScenarioMetrics ==
    <<[cost |-> Num(100), efficiency_score |-> Rat(1, 5), roas |-> Num(2)],
      [cost |-> Num(200), efficiency_score |-> Rat(3, 10), roas |-> Num(2)],
      [cost |-> Num(300), efficiency_score |-> Rat(1, 2), roas |-> Num(2)]>>

\* A three-channel table whose second channel is at the minimum budget before
\* the redistribution (budget fraction 1/4) and below it afterwards.
RedistributionMetrics ==
    <<[cost |-> Num(100), efficiency_score |-> Rat(1, 10), roas |-> Num(2)],
      [cost |-> Num(200), efficiency_score |-> Rat(1, 4), roas |-> Num(2)],
      [cost |-> Num(300), efficiency_score |-> Rat(13, 20), roas |-> Num(2)]>>

MetricsTables ==
    UNION {[1..n -> MetricsRows] : n \in 1..MaxChannels}
        \cup {ScenarioMetrics, RedistributionMetrics}

MaxTouchpoints == 2

UserIds == {1, 2}

ChannelNames == {"Email", "Social"}

\* Impression times, in units of 12 hours.
TimestampValues == {Num(0), Num(15)}

\* A touchpoint without a conversion, and one with a conversion worth 100 at
\* day 7.
ConversionValues ==
    {[conversion_timestamp |-> NaN, conversion_value |-> NaN],
     [conversion_timestamp |-> Num(14), conversion_value |-> Num(100)]}

JourneyRows ==
    {[user_id |-> u, channel |-> c, timestamp |-> t,
      conversion_timestamp |-> v.conversion_timestamp,
      conversion_value |-> v.conversion_value] :
        u \in UserIds, c \in ChannelNames \cup {None},
        t \in TimestampValues, v \in ConversionValues}

JourneyTables == UNION {[1..n -> JourneyRows] : n \in 1..MaxTouchpoints}

\* Journeys for the touchpoints without value: impressions at day 0 and day 5,
\* and a touchpoint has no conversion (value missing), a conversion at day 7
\* recorded with value 0, or a conversion at day 7 worth 100.
ValueTimestampValues == {Num(0), Num(10)}

ValueConversionValues ==
    {[conversion_timestamp |-> NaN, conversion_value |-> NaN],
     [conversion_timestamp |-> Num(14), conversion_value |-> Num(0)],
     [conversion_timestamp |-> Num(14), conversion_value |-> Num(100)]}

ValueJourneyRows ==
    {[user_id |-> u, channel |-> c, timestamp |-> t,
      conversion_timestamp |-> v.conversion_timestamp,
      conversion_value |-> v.conversion_value] :
        u \in UserIds, c \in ChannelNames,
        t \in ValueTimestampValues, v \in ValueConversionValues}

ValueJourneyTables == UNION {[1..n -> ValueJourneyRows] : n \in 1..MaxTouchpoints}

MaxScoreRows == 3

ScoreChannelNames == {"Email", "Social", "Search"}

\* What one row of the scored table carries: a channel that converts well, one
\* that converts less, one with clicks and no conversion, one with no activity
\* and no cost, and one with conversions at no cost.
ScoreRowValues ==
    {[cost |-> Num(100), revenue |-> Num(300), conversions |-> Num(2), clicks |-> Num(4)],
     [cost |-> Num(100), revenue |-> Num(100), conversions |-> Num(1), clicks |-> Num(2)],
     [cost |-> Num(100), revenue |-> Num(0), conversions |-> Num(0), clicks |-> Num(4)],
     [cost |-> Num(0), revenue |-> Num(0), conversions |-> Num(0), clicks |-> Num(0)],
     [cost |-> Num(0), revenue |-> Num(300), conversions |-> Num(1), clicks |-> Num(2)]}

ScoreRows ==
    {[channel |-> c, cost |-> v.cost, revenue |-> v.revenue,
      conversions |-> v.conversions, clicks |-> v.clicks, impressions |-> Num(1)] :
        c \in ScoreChannelNames, v \in ScoreRowValues}

\* Tables of up to MaxScoreRows rows, the table without rows included.
ScoreTables == UNION {[1..n -> ScoreRows] : n \in 0..MaxScoreRows}

MaxImpressions == 2

ImpressionIds == <<"imp_1", "imp_2", "imp_3", "imp_4">>

ClickIds == <<<<"click_1a", "click_1b">>, <<"click_2a", "click_2b">>,
              <<"click_3a", "click_3b">>, <<"click_4a", "click_4b">>>>

ConversionIds == <<"conv_1", "conv_2", "conv_3", "conv_4">>

\* The second conversion recorded for the first click of an impression.
SecondConversionIds == <<"conv_1b", "conv_2b", "conv_3b", "conv_4b">>

\* What follows an impression: nothing, a click, a click that converts, two
\* clicks of which the first converts, or a click with two conversions.
Activities == {"none", "click", "conversion", "two_clicks", "two_conversions"}

ImpressionCosts == {Num(0), Num(1)}

\* The cleaned clicks of impression i, and its cleaned conversions.
ClicksOf(i, channel, activity) ==
    LET click(j) == [click_id |-> ClickIds[i][j], impression_id |-> ImpressionIds[i],
                     channel |-> channel, click_timestamp |-> Num(j)]
    IN  CASE activity = "none" -> <<>>
          [] activity = "two_clicks" -> <<click(1), click(2)>>
          [] OTHER -> <<click(1)>>

ConversionsOf(i, channel, activity) ==
    LET conversion(id) ==
            [conversion_id |-> id, click_id |-> ClickIds[i][1],
             channel |-> channel, conversion_timestamp |-> Num(61),
             conversion_value |-> Num(100)]
    IN  CASE activity \in {"conversion", "two_clicks"} -> <<conversion(ConversionIds[i])>>
          [] activity = "two_conversions" ->
                <<conversion(ConversionIds[i]), conversion(SecondConversionIds[i])>>
          [] OTHER -> <<>>

RECURSIVE Flatten(_, _)
Flatten(tables, i) ==
    IF i > Len(tables) THEN <<>> ELSE tables[i] \o Flatten(tables, i + 1)

\* Cleaned impressions, clicks and conversions: unique identifiers, no missing
\* identifier or channel, costs >= 0 and conversion values > 0.
CleanedData ==
    UNION {
        {[impressions |->
            [i \in 1..n |-> [impression_id |-> ImpressionIds[i], channel |-> f[i].channel,
                             timestamp |-> Num(0), cost |-> f[i].cost]],
          clicks |->
            Flatten([i \in 1..n |-> ClicksOf(i, f[i].channel, f[i].activity)], 1),
          conversions |->
            Flatten([i \in 1..n |-> ConversionsOf(i, f[i].channel, f[i].activity)], 1)] :
            f \in [1..n -> [channel : ChannelNames, cost : ImpressionCosts,
                            activity : Activities]]} :
        n \in 1..MaxImpressions}

\* The raw files of a run of the pipeline: the tables of one impression and
\* what followed it, as they are, with every row recorded twice, or with rows
\* the cleaning removes (a negative cost, a click without identifier, a
\* conversion of value 0).
RawFiles == {"raw_impressions.csv", "raw_clicks.csv", "raw_conversions.csv"}

RawVariants == {"clean", "duplicated", "invalid"}

RawFilesOf(data, variant) ==
    LET files(impressions, clicks, conversions) ==
            ("raw_impressions.csv" :> impressions) @@ ("raw_clicks.csv" :> clicks)
                @@ ("raw_conversions.csv" :> conversions)
    IN  CASE variant = "clean" -> files(data.impressions, data.clicks, data.conversions)
          [] variant = "duplicated" ->
                files(data.impressions \o data.impressions, data.clicks \o data.clicks,
                      data.conversions \o data.conversions)
          [] variant = "invalid" ->
                files(data.impressions \o
                        <<[impression_id |-> ImpressionIds[4], channel |-> "Email",
                           timestamp |-> Num(0), cost |-> Num(-1)]>>,
                      data.clicks \o
                        <<[click_id |-> None, impression_id |-> ImpressionIds[1],
                           channel |-> "Email", click_timestamp |-> Num(1)]>>,
                      data.conversions \o
                        <<[conversion_id |-> ConversionIds[4], click_id |-> ClickIds[1][1],
                           channel |-> "Email", conversion_timestamp |-> Num(61),
                           conversion_value |-> Num(0)]>>)

RawData ==
    {RawFilesOf(data, variant) :
        data \in {d \in CleanedData : Len(d.impressions) = 1}, variant \in RawVariants}

MaxParetoRows == 3

RevenueValues == {Num(0), Num(100), Num(400)}

ParetoRows == [channel : ScoreChannelNames, revenue : RevenueValues]

\* Tables of up to MaxParetoRows rows, the table without rows included.
ParetoTables == UNION {[1..n -> ParetoRows] : n \in 0..MaxParetoRows}

\* The tables of the two-call sessions.
ClampingMetrics ==
    <<[cost |-> Num(100), efficiency_score |-> Num(1), roas |-> Num(2)],
      [cost |-> Num(200), efficiency_score |-> Rat(1, 2), roas |-> Num(2)]>>

SessionMetricsTables == {ScenarioMetrics, ClampingMetrics}

SessionBudgets == {Num(1000)}

SessionFractions == {Rat(1, 20), Rat(1, 2)}

Touchpoint(user_id, channel, timestamp, conversion) ==
    [user_id |-> user_id, channel |-> channel, timestamp |-> timestamp,
     conversion_timestamp |-> conversion.conversion_timestamp,
     conversion_value |-> conversion.conversion_value]

Converting == [conversion_timestamp |-> Num(14), conversion_value |-> Num(100)]

NotConverting == [conversion_timestamp |-> NaN, conversion_value |-> NaN]

SessionJourneyTables ==
    {<<Touchpoint(1, "Email", Num(0), Converting)>>,
     <<Touchpoint(1, "Email", Num(0), Converting),
       Touchpoint(1, "Social", Num(15), Converting)>>,
     <<Touchpoint(1, "Social", Num(0), NotConverting),
       Touchpoint(2, "Email", Num(0), Converting)>>}

SessionScoreTables ==
    {df \in ScoreTables :
        /\ Len(df) = 2
        /\ df[1].channel = "Email" /\ df[1].cost = Num(100) /\ df[1].conversions = Num(2)
        /\ df[2].channel = "Social" /\ df[2].cost = Num(100)}

(***************************************************************************)
(* The analyzer and its caller                                             *)
(***************************************************************************)
NoCall == [op |-> "none"]

Init ==
    /\ pc = "idle"
    /\ call = NoCall
    /\ results = <<>>
    /\ dataframe_ctor = "untried"
    /\ ret = NoCall
    /\ attribution_results = <<>>
    /\ optimization_results = <<>>
    /\ caller_table = <<>>
    /\ previous = NoCall
    /\ processed_data = <<>>
    /\ raw_frames = <<>>
    /\ exported = {}
    /\ trace = <<>>

\* A call of budget_optimization with arguments drawn from the given sets.
BudgetOptimizationOn(Tables, Budgets, Fractions) ==
    /\ pc = "idle"
    /\ \E cm \in Tables, b \in Budgets, p \in Fractions :
        /\ call' = [op |-> "budget_optimization", channel_metrics |-> cm,
                    total_budget |-> b, min_budget_pct |-> p]
        /\ ret' = budget_optimization(cm, b, p)
        /\ caller_table' = budget_optimization_objects(cm, b, p)["channel_metrics"]
    /\ pc' = "done"
    /\ UNCHANGED <<results, dataframe_ctor, attribution_results, optimization_results,
                   previous, processed_data>>
    /\ UNCHANGED main_vars

CallBudgetOptimization ==
    BudgetOptimizationOn(MetricsTables, BudgetValues, MinBudgetPctValues)

\* attribution_comparison up to the end of the loop over the models, on a
\* journey drawn from the given set.
AttributionComparisonOn(Tables) ==
    /\ pc = "idle"
    /\ \E df \in Tables :
        /\ call' = [op |-> "attribution_comparison", journey_df |-> df,
                    conversion_value_col |-> "conversion_value"]
        /\ results' = model_results(df, "conversion_value")
        /\ caller_table' = journey_df_after_models(df, "conversion_value")
    /\ pc' = "comparing"
    /\ UNCHANGED <<dataframe_ctor, ret, attribution_results, optimization_results,
                   previous, processed_data>>
    /\ UNCHANGED main_vars

CallAttributionComparison == AttributionComparisonOn(JourneyTables)

\* pd.DataFrame(results) takes the entries of results as columns: the
\* comparison is built, stored in the analyzer and returned.
BuildComparison ==
    /\ pc = "comparing"
    /\ dataframe_ctor \in {"untried", "accepts"}
    /\ dataframe_ctor' = "accepts"
    /\ attribution_results' = stored_attribution_results(results)
    /\ ret' = [status |-> "ok", value |-> attribution_results']
    /\ pc' = "done"
    /\ UNCHANGED <<call, results, optimization_results, caller_table, previous,
                   processed_data>>
    /\ UNCHANGED main_vars

\* results['last_touch'] and results['first_touch'] are one-column DataFrames
\* (agg with a dict keeps the column axis), which pd.DataFrame rejects as
\* column data in the builds that require 1-dimensional columns.
RejectComparison ==
    /\ pc = "comparing"
    /\ dataframe_ctor \in {"untried", "rejects"}
    /\ dataframe_ctor' = "rejects"
    /\ ret' = [status |-> "raise", error |-> "ValueError"]
    /\ pc' = "done"
    /\ UNCHANGED <<call, results, attribution_results, optimization_results,
                   caller_table, previous, processed_data>>
    /\ UNCHANGED main_vars

\* A call of calculate_efficiency_scores on a table drawn from the given set.
EfficiencyScoresOn(Tables) ==
    /\ pc = "idle"
    /\ \E df \in Tables :
        /\ call' = [op |-> "calculate_efficiency_scores", df |-> df]
        /\ ret' = calculate_efficiency_scores(df)
        /\ caller_table' = calculate_efficiency_scores_objects(df)["df"]
    /\ pc' = "done"
    /\ UNCHANGED <<results, dataframe_ctor, attribution_results, optimization_results,
                   previous, processed_data>>
    /\ UNCHANGED main_vars

CallCalculateEfficiencyScores == EfficiencyScoresOn(ScoreTables)

(***************************************************************************)
(* A caller that makes two calls on one analyzer                           *)
(***************************************************************************)
SessionBudgetOptimization ==
    BudgetOptimizationOn(SessionMetricsTables, SessionBudgets, SessionFractions)

SessionAttributionComparison == AttributionComparisonOn(SessionJourneyTables)

SessionEfficiencyScores == EfficiencyScoresOn(SessionScoreTables)

\* The caller keeps what its first call returned and what the analyzer stored,
\* and goes on to its second call.
Return ==
    /\ pc = "done"
    /\ previous = NoCall
    /\ previous' = [call |-> call, ret |-> ret, attribution_results |-> attribution_results]
    /\ pc' = "idle"
    /\ UNCHANGED <<call, results, dataframe_ctor, ret, attribution_results,
                   optimization_results, caller_table, processed_data>>
    /\ UNCHANGED main_vars

NextSession ==
    \/ SessionBudgetOptimization
    \/ SessionAttributionComparison
    \/ BuildComparison
    \/ RejectComparison
    \/ SessionEfficiencyScores
    \/ Return

SpecSession == Init /\ [][NextSession]_vars

\* clean_impressions_data, clean_clicks_data and clean_conversions_data have
\* stored their cleaned tables.
CleanData ==
    /\ pc = "idle"
    /\ \E data \in CleanedData : processed_data' = data
    /\ call' = [op |-> "clean_data"]
    /\ pc' = "cleaned"
    /\ UNCHANGED <<results, dataframe_ctor, ret, attribution_results, optimization_results,
                   caller_table, previous>>
    /\ UNCHANGED main_vars

CreateUserJourney ==
    /\ pc = "cleaned"
    /\ LET full_journey == create_user_journey(processed_data)
       IN  /\ processed_data' = processed_data @@ [user_journey |-> full_journey]
           /\ ret' = [status |-> "ok", value |-> full_journey]
    /\ call' = [op |-> "create_user_journey"]
    /\ pc' = "journey"
    /\ UNCHANGED <<results, dataframe_ctor, attribution_results, optimization_results,
                   caller_table, previous>>
    /\ UNCHANGED main_vars

CalculateChannelMetrics ==
    /\ pc = "journey"
    /\ LET channel_metrics == calculate_channel_metrics(processed_data.user_journey)
       IN  /\ processed_data' = processed_data @@ [channel_metrics |-> channel_metrics]
           /\ ret' = [status |-> "ok", value |-> channel_metrics]
    /\ call' = [op |-> "calculate_channel_metrics"]
    /\ pc' = "done"
    /\ UNCHANGED <<results, dataframe_ctor, attribution_results, optimization_results,
                   caller_table, previous>>
    /\ UNCHANGED main_vars

NextMetrics ==
    \/ CleanData
    \/ CreateUserJourney
    \/ CalculateChannelMetrics

SpecMetrics == Init /\ [][NextMetrics]_vars

(***************************************************************************)
(* etl_utils.main: the pipeline on one DataProcessor.  pc names the step    *)
(* main runs next; every step appends its name to trace.                   *)
(***************************************************************************)
\* processor.load_raw_data() and the `if` on what it returned.
MainLoadRawData ==
    /\ pc = "idle"
    /\ \E files \in RawData, unreadable \in SUBSET RawFiles :
        LET loaded == load_raw_data(files, unreadable)
        IN  /\ call' = [op |-> "main", files |-> files, unreadable |-> unreadable]
            /\ raw_frames' = loaded.frames
            /\ ret' = [status |-> "ok", value |-> loaded.value]
            /\ pc' = IF loaded.value THEN "main_clean_impressions" ELSE "main_end"
    /\ trace' = Append(trace, "load_raw_data")
    /\ UNCHANGED <<results, dataframe_ctor, attribution_results, optimization_results,
                   caller_table, previous, processed_data, exported>>

\* A cleaning step of main: it reads the frame load_raw_data stored (an
\* AttributeError, which ends main, when the attribute was never set) and
\* stores the cleaned table under `key`.
MainCleanStep(position, step, attribute, key, cleaned, next) ==
    /\ pc = position
    /\ IF attribute \in DOMAIN raw_frames
       THEN /\ processed_data' = processed_data @@ (key :> cleaned)
            /\ ret' = [status |-> "ok", value |-> cleaned]
            /\ pc' = next
       ELSE /\ ret' = [status |-> "raise", error |-> "AttributeError"]
            /\ pc' = "main_end"
            /\ UNCHANGED processed_data
    /\ trace' = Append(trace, step)
    /\ UNCHANGED <<call, results, dataframe_ctor, attribution_results, optimization_results,
                   caller_table, previous, raw_frames, exported>>

MainCleanImpressions ==
    MainCleanStep("main_clean_impressions", "clean_impressions_data", "impressions_df",
                  "impressions", clean_impressions_data(raw_frames["impressions_df"]),
                  "main_clean_clicks")

MainCleanClicks ==
    MainCleanStep("main_clean_clicks", "clean_clicks_data", "clicks_df",
                  "clicks", clean_clicks_data(raw_frames["clicks_df"]),
                  "main_clean_conversions")

MainCleanConversions ==
    MainCleanStep("main_clean_conversions", "clean_conversions_data", "conversions_df",
                  "conversions", clean_conversions_data(raw_frames["conversions_df"]),
                  "main_create_user_journey")

MainCreateUserJourney ==
    /\ pc = "main_create_user_journey"
    /\ LET full_journey == create_user_journey(processed_data)
       IN  /\ processed_data' = processed_data @@ [user_journey |-> full_journey]
           /\ ret' = [status |-> "ok", value |-> full_journey]
    /\ pc' = "main_calculate_channel_metrics"
    /\ trace' = Append(trace, "create_user_journey")
    /\ UNCHANGED <<call, results, dataframe_ctor, attribution_results, optimization_results,
                   caller_table, previous, raw_frames, exported>>

MainCalculateChannelMetrics ==
    /\ pc = "main_calculate_channel_metrics"
    /\ LET channel_metrics == calculate_channel_metrics(processed_data.user_journey)
       IN  /\ processed_data' = processed_data @@ [channel_metrics |-> channel_metrics]
           /\ ret' = [status |-> "ok", value |-> channel_metrics]
    /\ pc' = "main_export_cleaned_data"
    /\ trace' = Append(trace, "calculate_channel_metrics")
    /\ UNCHANGED <<call, results, dataframe_ctor, attribution_results, optimization_results,
                   caller_table, previous, raw_frames, exported>>

\* export_cleaned_data: one file clean_<key>.csv per entry of processed_data.
MainExportCleanedData ==
    /\ pc = "main_export_cleaned_data"
    /\ exported' = exported \cup DOMAIN processed_data
    /\ ret' = [status |-> "ok", value |-> None]
    /\ pc' = "main_generate_data_quality_report"
    /\ trace' = Append(trace, "export_cleaned_data")
    /\ UNCHANGED <<call, results, dataframe_ctor, attribution_results, optimization_results,
                   caller_table, previous, processed_data, raw_frames>>

\* generate_data_quality_report: the record count of every entry of
\* processed_data.
MainGenerateDataQualityReport ==
    /\ pc = "main_generate_data_quality_report"
    /\ ret' = [status |-> "ok",
               value |-> [key \in DOMAIN processed_data |->
                            Cardinality(DOMAIN processed_data[key])]]
    /\ pc' = "main_end"
    /\ trace' = Append(trace, "generate_data_quality_report")
    /\ UNCHANGED <<call, results, dataframe_ctor, attribution_results, optimization_results,
                   caller_table, previous, processed_data, raw_frames, exported>>

NextMain ==
    \/ MainLoadRawData
    \/ MainCleanImpressions
    \/ MainCleanClicks
    \/ MainCleanConversions
    \/ MainCreateUserJourney
    \/ MainCalculateChannelMetrics
    \/ MainExportCleanedData
    \/ MainGenerateDataQualityReport

SpecMain == Init /\ [][NextMain]_vars

\* A call of pareto_analysis with the default columns.
CallParetoAnalysis ==
    /\ pc = "idle"
    /\ \E df \in ParetoTables :
        \E order \in DescendingOrders(entity_sums(df, "revenue", "channel")) :
            /\ call' = [op |-> "pareto_analysis", df |-> df,
                        value_col |-> "revenue", entity_col |-> "channel"]
            /\ ret' = pareto_analysis(df, "revenue", "channel", order)
    /\ pc' = "done"
    /\ UNCHANGED <<results, dataframe_ctor, attribution_results, optimization_results,
                   caller_table, previous, processed_data>>
    /\ UNCHANGED main_vars

NextPareto == CallParetoAnalysis

SpecPareto == Init /\ [][NextPareto]_vars

NextBudget == CallBudgetOptimization

\* A call of budget_optimization with the positive budget its contract asks for.
PositiveBudgetValues == {Num(1000)}

CallBudgetOptimizationPositive ==
    BudgetOptimizationOn(MetricsTables, PositiveBudgetValues, MinBudgetPctValues)

NextBudgetPositive == CallBudgetOptimizationPositive

SpecBudgetPositive == Init /\ [][NextBudgetPositive]_vars

NextScores == CallCalculateEfficiencyScores

SpecScores == Init /\ [][NextScores]_vars

NextAttribution ==
    \/ CallAttributionComparison
    \/ BuildComparison
    \/ RejectComparison

SpecAttribution == Init /\ [][NextAttribution]_vars

CallAttributionComparisonValues == AttributionComparisonOn(ValueJourneyTables)

NextAttributionValues ==
    \/ CallAttributionComparisonValues
    \/ BuildComparison
    \/ RejectComparison

SpecAttributionValues == Init /\ [][NextAttributionValues]_vars

(***************************************************************************)
(* Attribution properties                                                  *)
(***************************************************************************)
\* The four models have run on call.journey_df and `results` holds what they
\* returned.
AttributionRan ==
    pc \in {"comparing", "done"} /\ call.op = "attribution_comparison"

JourneyValues == Col(call.journey_df, call.conversion_value_col)

\* A model's total for channel c; a channel without an entry has no total.
Total(res, c) == IF c \in DOMAIN res THEN res[c] ELSE Num(0)

\* C3 as stated, on journeys whose rows all carry a channel: per user, the
\* linear attributed values add up to the user's values, and the linear totals
\* over all channels add up to the value column.
C3_LinearConservesValue ==
    (AttributionRan /\ \A i \in Idx(call.journey_df) : call.journey_df[i].channel # None)
        => LET df == call.journey_df
               attributed == linear_attributed_value(df, call.conversion_value_col)
           IN  /\ \A u \in UserKeys(df) :
                     SumOver(attributed, UserRows(df, u))
                        = SumOver(JourneyValues, UserRows(df, u))
               /\ SumOver(results.linear, DOMAIN results.linear) = Sum(JourneyValues)

\* C4: last-touch is a regrouping: each channel's total is the sum of the
\* value column over the channel's rows, and the totals over all channels add
\* up to the value column over the rows that have a channel.
C4_LastTouchConservesValue ==
    AttributionRan
        => LET df == call.journey_df
               last_touch == results.last_touch
           IN  /\ DOMAIN last_touch = ChannelKeys(df)
               /\ \A c \in ChannelKeys(df) :
                     last_touch[c] = SumOver(JourneyValues, ChannelRows(df, c))
               /\ SumOver(last_touch, DOMAIN last_touch)
                     = SumOver(JourneyValues, Idx(df) \ ChannelRows(df, None))

\* C4 witness: a journey with a valued row that has no channel, and a channel
\* whose total is positive.
C4_Witness ==
    /\ AttributionRan
    /\ \E i \in ChannelRows(call.journey_df, None) : JourneyValues[i] = Num(100)
    /\ \E c \in DOMAIN results.last_touch : results.last_touch[c] = Num(100)

\* C5 as stated, on journeys whose rows all carry a channel: for every user,
\* with or without a conversion timestamp, the time weights of the user's rows
\* are numbers that add up to 1, and a single row has weight 1.
C5_TimeWeightsSumToOne ==
    (AttributionRan /\ \A i \in Idx(call.journey_df) : call.journey_df[i].channel # None)
        => LET df == sort_by_user_timestamp(call.journey_df)
           IN  \A u \in UserKeys(df) :
                  LET w == calculate_time_weights(df, u, decay_rate)
                  IN  /\ \A i \in UserRows(df, u) : ~IsNaN(w[i])
                      /\ SumOver(w, UserRows(df, u)) = Num(1)
                      /\ Cardinality(UserRows(df, u)) = 1
                            => \A i \in UserRows(df, u) : w[i] = Num(1)

\* The table without row i.
WithoutRow(df, i) ==
    [p \in 1..(Len(df) - 1) |-> IF p < i THEN df[p] ELSE df[p + 1]]

\* The users with exactly one row, which has a channel and a positive value.
SingleTouchRows ==
    LET df == call.journey_df
    IN  {i \in Idx(df) :
            /\ UserRows(df, df[i].user_id) = {i}
            /\ df[i].channel # None
            /\ FGt(JourneyValues[i], Num(0))}

\* C6: the single row of a user, with value v > 0 on channel c, adds v to the
\* total of c and nothing to any other channel, under each of the four
\* models: with the row, every total is what it is without the row, plus v
\* for channel c.
C6_SingleTouchpointAgrees ==
    AttributionRan
        => \A i \in SingleTouchRows :
              LET df == call.journey_df
                  rest == model_results(WithoutRow(df, i), call.conversion_value_col)
              IN  \A m \in ModelNames, c \in ChannelNames :
                     FSub(Total(results[m], c), Total(rest[m], c))
                        = IF c = df[i].channel THEN JourneyValues[i] ELSE Num(0)

\* C6 witness: a single-row user next to another user with a valued row on
\* the same channel.
C6_Witness ==
    /\ AttributionRan
    /\ Len(call.journey_df) = 2
    /\ \E i \in SingleTouchRows :
          /\ \E j \in Idx(call.journey_df) \ {i} :
                /\ call.journey_df[j].channel = call.journey_df[i].channel
                /\ JourneyValues[j] = Num(100)
          /\ \A m \in ModelNames :
                results[m][call.journey_df[i].channel] = Num(200)


SpecBudget == Init /\ [][NextBudget]_vars

\* The rows of user u come in the order of their timestamps.
SortedByTimestamp(df, u) ==
    \A i, j \in UserRows(df, u) : i < j => FLt(df[i].timestamp, df[j].timestamp)

\* The user's chronologically first touchpoint row.
FirstTouchRow(df, u) ==
    CHOOSE i \in UserRows(df, u) :
        \A j \in UserRows(df, u) : FLe(df[i].timestamp, df[j].timestamp)

\* C16 as stated, on journeys whose rows all carry a channel and come, per
\* user, in the order of their timestamps: each channel's first-touch total is
\* the sum of the values of the first touchpoint rows on that channel, and no
\* later row's value is credited to any channel.
C16_FirstTouchOnlyFirstRow ==
    (/\ AttributionRan
     /\ \A i \in Idx(call.journey_df) : call.journey_df[i].channel # None
     /\ \A u \in UserKeys(call.journey_df) : SortedByTimestamp(call.journey_df, u))
        => LET df == call.journey_df
               firstRows == {FirstTouchRow(df, u) : u \in UserKeys(df)}
           IN  /\ DOMAIN results.first_touch = {df[i].channel : i \in firstRows}
               /\ \A c \in DOMAIN results.first_touch :
                     results.first_touch[c]
                        = SumOver(JourneyValues, {i \in firstRows : df[i].channel = c})

NullOrZero(x) == IsNaN(x) \/ x = Num(0)

\* C23 as stated, on journeys that come, per user, in the order of their
\* timestamps: under each of the four models no channel total is missing, and
\* a channel all of whose touchpoint rows have a null or zero value has the
\* total zero, since none of its rows adds anything to it.
C23_NullOrZeroAddsNothing ==
    (/\ AttributionRan
     /\ \A u \in UserKeys(call.journey_df) : SortedByTimestamp(call.journey_df, u))
        => \A m \in ModelNames :
              /\ \A c \in DOMAIN results[m] : ~IsNaN(results[m][c])
              /\ \A c \in ChannelKeys(call.journey_df) :
                    (\A i \in ChannelRows(call.journey_df, c) : NullOrZero(JourneyValues[i]))
                        => Total(results[m], c) = Num(0)

(***************************************************************************)
(* Budget optimizer properties                                             *)
(***************************************************************************)
BudgetReturned == pc = "done" /\ call.op = "budget_optimization"

\* The non-infeasible inputs: a positive budget, a positive total cost,
\* non-negative scores with a positive sum, and minimum budgets that fit.
BudgetFeasible ==
    LET cm == call.channel_metrics
        score == Col(cm, "efficiency_score")
    IN  /\ FGt(call.total_budget, Num(0))
        /\ FGt(Sum(Col(cm, "cost")), Num(0))
        /\ \A i \in Idx(cm) : FLe(Num(0), score[i])
        /\ FGt(Sum(score), Num(0))
        /\ FLe(FMul(Num(Len(cm)), min_budget(call.total_budget, call.min_budget_pct)),
               call.total_budget)

ClampedChannels ==
    LET naive == naive_allocation(call.channel_metrics, call.total_budget)
        minimum == min_budget(call.total_budget, call.min_budget_pct)
    IN  {i \in Idx(naive) : FLt(naive[i], minimum)}

\* C1: on every non-infeasible input the returned optimal_allocation sums to
\* total_budget, with or without channels clamped to the minimum budget.
C1_OptimalSumsToBudget ==
    (BudgetReturned /\ BudgetFeasible)
        => Sum(ret.optimal_allocation) = call.total_budget

\* C1 witness: a feasible three-channel call that clamps a channel to the
\* minimum and redistributes the rest over the other channels.
C1_Witness ==
    /\ BudgetReturned /\ BudgetFeasible
    /\ Len(call.channel_metrics) = 3
    /\ ClampedChannels # {}
    /\ \A i \in ClampedChannels :
          /\ FGt(call.channel_metrics[i].efficiency_score, Num(0))
          /\ ret.optimal_allocation[i]
                = min_budget(call.total_budget, call.min_budget_pct)
    /\ Sum(ret.optimal_allocation) = call.total_budget

IsScenarioCall ==
    /\ BudgetReturned
    /\ call.channel_metrics = ScenarioMetrics
    /\ call.total_budget = Num(1000)
    /\ call.min_budget_pct = Rat(1, 20)

SummaryRow(i) ==
    LET s == ret.reallocation_summary
    IN  s[CHOOSE p \in Idx(s) : s[p].channel = i]

\* C2 as stated: the scenario yields change_pct [+100, +50, +66.7] and three
\* 'increase' labels.
C2_ScenarioAsStated ==
    IsScenarioCall =>
        /\ ClampedChannels = {}
        /\ ret.optimal_allocation = <<Num(200), Num(300), Num(500)>>
        /\ ret.allocation_change_pct = <<Num(100), Num(50), Rat(200, 3)>>
        /\ \A i \in 1..3 : SummaryRow(i).recommendation = "increase"

\* C2 amended: the scenario clamps no channel and yields the optimal
\* allocation [200, 300, 500]; against the current allocation rescaled to the
\* budget, [166.67, 333.33, 500], change_pct is [+20, -10, 0] and the labels
\* are increase, maintain, maintain.
C2_ScenarioAmended ==
    IsScenarioCall =>
        /\ ClampedChannels = {}
        /\ ret.current_allocation = <<Rat(500, 3), Rat(1000, 3), Num(500)>>
        /\ ret.optimal_allocation = <<Num(200), Num(300), Num(500)>>
        /\ ret.allocation_change_pct = <<Num(20), Num(-10), Num(0)>>
        /\ \A i \in 1..3 : SummaryRow(i).change_pct = ret.allocation_change_pct[i]
        /\ SummaryRow(1).recommendation = "increase"
        /\ SummaryRow(2).recommendation = "maintain"
        /\ SummaryRow(3).recommendation = "maintain"

\* C2 witness: the scenario call has returned.
C2_Witness == IsScenarioCall /\ ret.status = "ok"

\* C10 as stated: a call with total_budget <= 0 fails with InvalidBudgetError
\* and returns no allocation.
C10_NonPositiveBudgetFails ==
    (BudgetReturned /\ FLe(call.total_budget, Num(0)))
        => (ret.status = "raise" /\ ret.error = "InvalidBudgetError")

\* The inputs a caller would call sane: a positive budget, every channel with
\* a positive cost and a positive score.
BudgetInputsPositive ==
    /\ FGt(call.total_budget, Num(0))
    /\ \A i \in Idx(call.channel_metrics) :
          /\ FGt(call.channel_metrics[i].cost, Num(0))
          /\ FGt(call.channel_metrics[i].efficiency_score, Num(0))

MinimumsExceedBudget ==
    FGt(FMul(Num(Len(call.channel_metrics)),
             min_budget(call.total_budget, call.min_budget_pct)),
        call.total_budget)

\* C11 as stated, on positive inputs: when (number of channels) x (total_budget
\* x min_budget_pct) exceeds total_budget the call fails with
\* ConstraintInfeasibleError and returns no allocation.
C11_InfeasibleMinimumsFail ==
    (BudgetReturned /\ BudgetInputsPositive /\ MinimumsExceedBudget)
        => (ret.status = "raise" /\ ret.error = "ConstraintInfeasibleError")

\* C13: in the reallocation summary a channel is labelled 'increase' exactly
\* when its change_pct > 10, 'decrease' exactly when its change_pct < -10 and
\* 'maintain' otherwise, so exactly +10 and exactly -10 are 'maintain'; the
\* summary's change_pct is (optimal - current) / current * 100.
C13_RecommendationLabels ==
    BudgetReturned
        => \A p \in Idx(ret.reallocation_summary) :
              LET row == ret.reallocation_summary[p]
                  i == row.channel
              IN  /\ row.change_pct
                        = FMul(FDiv(FSub(ret.optimal_allocation[i], ret.current_allocation[i]),
                                    ret.current_allocation[i]), Num(100))
                  /\ (row.recommendation = "increase") <=> FGt(row.change_pct, Num(10))
                  /\ (row.recommendation = "decrease") <=> FLt(row.change_pct, Num(-10))
                  /\ (row.recommendation = "maintain")
                        <=> ~(FGt(row.change_pct, Num(10)) \/ FLt(row.change_pct, Num(-10)))
                  /\ (row.change_pct \in {Num(10), Num(-10)})
                        => row.recommendation = "maintain"

\* C13 witness: a returned summary with a channel at exactly -10 labelled
\* 'maintain' beside a channel above +10 labelled 'increase'.
C13_Witness ==
    /\ BudgetReturned /\ BudgetFeasible
    /\ \E p, q \in Idx(ret.reallocation_summary) :
          /\ ret.reallocation_summary[p].change_pct = Num(-10)
          /\ ret.reallocation_summary[p].recommendation = "maintain"
          /\ FGt(ret.reallocation_summary[q].change_pct, Num(10))
          /\ ret.reallocation_summary[q].recommendation = "increase"

ZeroCostChannels ==
    {i \in Idx(call.channel_metrics) : call.channel_metrics[i].cost = Num(0)}

\* C14 as stated: with a positive budget and positive scores, a channel of
\* cost 0 beside channels of positive cost gets a missing change_pct, in
\* allocation_change_pct and in the reallocation summary.
C14_ZeroCurrentChangeMissing ==
    (/\ BudgetReturned
     /\ FGt(call.total_budget, Num(0))
     /\ FGt(Sum(Col(call.channel_metrics, "cost")), Num(0))
     /\ \A i \in Idx(call.channel_metrics) :
           FGt(call.channel_metrics[i].efficiency_score, Num(0)))
        => /\ ret.status = "ok"
           /\ \A i \in ZeroCostChannels :
                 /\ IsNaN(ret.allocation_change_pct[i])
                 /\ IsNaN(SummaryRow(i).change_pct)

\* C15 as stated, on positive and feasible inputs: expected_improvement_pct is
\* sum(change_i * score_i) / sum(current_i) * 100 with current_i the current
\* allocation rescaled to the budget, so the denominator is total_budget.
C15_ExpectedImprovement ==
    (BudgetReturned /\ BudgetInputsPositive /\ BudgetFeasible)
        => /\ Sum(ret.current_allocation) = call.total_budget
           /\ ret.expected_improvement_pct
                = FMul(FDiv(Sum([i \in Idx(call.channel_metrics) |->
                                    FMul(ret.allocation_change[i],
                                         call.channel_metrics[i].efficiency_score)]),
                            Sum(ret.current_allocation)),
                       Num(100))

\* The channels whose naive allocation score_i / sum(scores) * total_budget is
\* below total_budget * min_budget_pct.
NaivelyBelowMinimum ==
    LET score == Col(call.channel_metrics, "efficiency_score")
    IN  {i \in Idx(score) :
            FLt(FMul(FDiv(score[i], Sum(score)), call.total_budget),
                FMul(call.total_budget, call.min_budget_pct))}

\* C21: every channel whose naive allocation is below min_budget ends with
\* exactly min_budget, and every other channel i ends with (total_budget -
\* k * min_budget) * score_i / (sum of the scores of the unclamped channels),
\* k the number of clamped channels; the step is applied once, so a channel
\* that was not below the minimum is not set to it, also when its
\* redistributed allocation is below min_budget.
C21_SinglePassMinimum ==
    BudgetReturned
        => LET score == Col(call.channel_metrics, "efficiency_score")
               clamped == NaivelyBelowMinimum
               unclamped == Idx(score) \ clamped
               minimum == FMul(call.total_budget, call.min_budget_pct)
               rest == FSub(call.total_budget, FMul(Num(Cardinality(clamped)), minimum))
           IN  /\ \A i \in clamped : ret.optimal_allocation[i] = minimum
               /\ \A i \in unclamped :
                     ret.optimal_allocation[i]
                        = FDiv(FMul(rest, score[i]), SumOver(score, unclamped))

\* C21 witness: a feasible call that clamps a channel and whose redistribution
\* leaves another channel, at the minimum before, below the minimum: it keeps
\* its redistributed share.
C21_Witness ==
    /\ BudgetReturned /\ BudgetFeasible /\ BudgetInputsPositive
    /\ NaivelyBelowMinimum # {}
    /\ \E i \in Idx(call.channel_metrics) \ NaivelyBelowMinimum :
          /\ FGt(ret.optimal_allocation[i], Num(0))
          /\ FLt(ret.optimal_allocation[i],
                 FMul(call.total_budget, call.min_budget_pct))

\* The summary has exactly one row per input channel.
OneRowPerChannel ==
    /\ Len(ret.reallocation_summary) = Len(call.channel_metrics)
    /\ \A i \in Idx(call.channel_metrics) :
          Cardinality({p \in Idx(ret.reallocation_summary) :
                          ret.reallocation_summary[p].channel = i}) = 1

\* C22 as stated: the summary has one row per input channel and, for every
\* two adjacent rows, the earlier row's change_pct is >= the later row's.
C22_SummarySortedAsStated ==
    BudgetReturned
        => /\ OneRowPerChannel
           /\ \A p \in 1..(Len(ret.reallocation_summary) - 1) :
                 FLe(ret.reallocation_summary[p + 1].change_pct,
                     ret.reallocation_summary[p].change_pct)

\* C22 amended: the summary has one row per input channel; the rows whose
\* change_pct is not missing come first, in non-increasing order of
\* change_pct, and the rows whose change_pct is missing come last.
C22_SummarySortedAmended ==
    BudgetReturned
        => /\ OneRowPerChannel
           /\ \A p \in 1..(Len(ret.reallocation_summary) - 1) :
                 \/ IsNaN(ret.reallocation_summary[p + 1].change_pct)
                 \/ FLe(ret.reallocation_summary[p + 1].change_pct,
                        ret.reallocation_summary[p].change_pct)

\* C22 witness: a feasible three-channel call whose summary lists the
\* channels in the order 1, 3, 2, with strictly decreasing change_pct.
C22_Witness ==
    /\ BudgetReturned /\ BudgetFeasible /\ BudgetInputsPositive
    /\ Len(ret.reallocation_summary) = 3
    /\ [p \in 1..3 |-> ret.reallocation_summary[p].channel] = <<1, 3, 2>>
    /\ \A p \in 1..2 :
          FGt(ret.reallocation_summary[p].change_pct,
              ret.reallocation_summary[p + 1].change_pct)

(***************************************************************************)
(* Efficiency scorer properties                                            *)
(***************************************************************************)
ScoresReturned ==
    pc = "done" /\ call.op = "calculate_efficiency_scores" /\ ret.status = "ok"

ScoredMetrics == channel_metrics_of(call.df)

AllMetricsFinite ==
    \A c \in DOMAIN ScoredMetrics, m \in scoring_metrics : IsFinite(ScoredMetrics[c][m])

\* C7 as stated, on channel sets whose four metrics are all finite: every
\* normalized value is (value - min) / (max - min) and lies in [0, 1], and is
\* 0.5 for every channel when the metric is constant (max = min).
C7_NormalizedComponents ==
    (ScoresReturned /\ AllMetricsFinite)
        => \A m \in scoring_metrics, c \in DOMAIN ScoredMetrics :
              LET index == DOMAIN ScoredMetrics
                  column == [k \in index |-> ScoredMetrics[k][m]]
                  lo == MinOver(column, index)
                  hi == MaxOver(column, index)
                  normalized == normalized_scores(ScoredMetrics)[m][c]
              IN  /\ FLe(Num(0), normalized) /\ FLe(normalized, Num(1))
                  /\ normalized = IF hi = lo THEN Rat(1, 2)
                                  ELSE FDiv(FSub(column[c], lo), FSub(hi, lo))

\* C8 as stated: every channel's efficiency score is the weighted sum of its
\* normalized components with the weights 0.4, 0.3, 0.2, 0.1, which sum to 1,
\* and lies in [0, 1].
C8_CompositeScore ==
    ScoresReturned
        => /\ FAdd(FAdd(weights.roas, weights.cost_efficiency),
                   FAdd(weights.conversion_rate, weights.ctr)) = Num(1)
           /\ \A c \in DOMAIN ret.table :
                 LET n == normalized_scores(ScoredMetrics)
                     score == ret.table[c].efficiency_score
                 IN  /\ score = FAdd(FAdd(FMul(Rat(4, 10), n.roas[c]),
                                          FMul(Rat(3, 10), n.cost_efficiency[c])),
                                     FAdd(FMul(Rat(2, 10), n.conversion_rate[c]),
                                          FMul(Rat(1, 10), n.ctr[c])))
                     /\ FLe(Num(0), score) /\ FLe(score, Num(1))

\* C12 as stated: a call on data with fewer than 2 channels fails with
\* InsufficientDataError and returns no scores.
C12_FewChannelsFail ==
    (/\ pc = "done" /\ call.op = "calculate_efficiency_scores"
     /\ Cardinality(ChannelKeys(call.df)) < 2)
        => (ret.status = "raise" /\ ret.error = "InsufficientDataError")

\* C9 as stated, on channel sets where every channel has spend and clicks: with
\* a channel of zero conversions the call completes and the returned
\* cost_per_conversion, cost_efficiency, conversion_rate and efficiency_score
\* of every channel are finite numbers.
C9_ZeroConversionsHandled ==
    (/\ pc = "done" /\ call.op = "calculate_efficiency_scores"
     /\ \A c \in DOMAIN ScoredMetrics :
           FGt(ScoredMetrics[c].cost, Num(0)) /\ FGt(ScoredMetrics[c].clicks, Num(0))
     /\ \E c \in DOMAIN ScoredMetrics : ScoredMetrics[c].conversions = Num(0))
        => /\ ret.status = "ok"
           /\ \A c \in DOMAIN ret.table :
                 \A m \in {"cost_per_conversion", "cost_efficiency",
                           "conversion_rate", "efficiency_score"} :
                    IsFinite(ret.table[c][m])

(***************************************************************************)
(* Channel metrics properties                                              *)
(***************************************************************************)
MetricsCalculated == pc = "done" /\ call.op = "calculate_channel_metrics"

\* The derived ratios with their denominators.
RatioDenominators ==
    [ctr |-> "impressions", conversion_rate |-> "clicks", cost_per_click |-> "clicks",
     cost_per_conversion |-> "conversions", roas |-> "cost"]

\* C17: in the calculated channel metrics a ratio whose denominator is zero
\* is the missing value, 0/0 included, and no ratio is +infinity or -infinity.
C17_ZeroDenominatorMissing ==
    MetricsCalculated
        => \A c \in DOMAIN ret.value, ratio \in DOMAIN RatioDenominators :
              LET m == ret.value[c]
              IN  /\ ~IsInf(m[ratio])
                  /\ (m[RatioDenominators[ratio]] = Num(0)) => IsNaN(m[ratio])

\* C17 witness: a channel with cost and no click, whose cost_per_click (x/0)
\* and conversion_rate (0/0) are both missing.
C17_Witness ==
    /\ MetricsCalculated
    /\ \E c \in DOMAIN ret.value :
          /\ ret.value[c].clicks = Num(0)
          /\ FGt(ret.value[c].cost, Num(0))
          /\ IsNaN(ret.value[c].cost_per_click)
          /\ IsNaN(ret.value[c].conversion_rate)

JourneyRowsOf(c) ==
    {i \in Idx(processed_data.user_journey) : processed_data.user_journey[i].channel_imp = c}

\* x / y, missing when y is zero.
RatioOrMissing(x, y) == IF y = Num(0) THEN NaN ELSE FDiv(x, y)

\* The counts and sums of C18, which the stated and the amended claim share.
ChannelTotalsAsStated(c) ==
    LET journey == processed_data.user_journey
        m == ret.value[c]
    IN  /\ m.impressions = Num(Cardinality(JourneyRowsOf(c)))
        /\ m.clicks = Num(Cardinality({i \in JourneyRowsOf(c) : journey[i].click_id # None}))
        /\ m.conversions
              = Num(Cardinality({i \in JourneyRowsOf(c) : journey[i].conversion_id # None}))
        /\ m.cost = SumOver(Col(journey, "cost"), JourneyRowsOf(c))
        /\ m.revenue = SumOver(Col(journey, "conversion_value"), JourneyRowsOf(c))
        /\ m.profit = FSub(m.revenue, m.cost)

JourneyCreated ==
    pc \in {"journey", "done"}
        /\ call.op \in {"create_user_journey", "calculate_channel_metrics"}

\* C24 as stated: the user journey has exactly one row per cleaned impression,
\* so no impression id appears in two rows, also when two clicks reference
\* one impression or two conversions reference one click.
C24_OneRowPerImpression ==
    JourneyCreated
        => /\ Len(processed_data.user_journey) = Len(processed_data.impressions)
           /\ \A k \in Idx(processed_data.impressions) :
                 Cardinality({i \in Idx(processed_data.user_journey) :
                                 processed_data.user_journey[i].impression_id
                                    = processed_data.impressions[k].impression_id}) = 1

(***************************************************************************)
(* Pareto analysis properties                                              *)
(***************************************************************************)
ParetoReturned == pc = "done" /\ call.op = "pareto_analysis" /\ ret.status = "ok"

\* The cumulative share, in percent of the total value, of the first p
\* entities of the returned descending order.
CumulativeShare(p) ==
    LET values == [q \in Idx(ret.entity_values) |-> ret.entity_values[q].value]
    IN  FMul(FDiv(SumUpTo(values, p), Sum(values)), Num(100))

\* The length of the longest prefix whose cumulative share is <= 80%.
LongestPrefixWithin80 ==
    CHOOSE k \in 0..Len(ret.entity_values) :
        /\ \A p \in 1..k : FLe(CumulativeShare(p), Num(80))
        /\ k < Len(ret.entity_values) => ~FLe(CumulativeShare(k + 1), Num(80))

\* C26 as stated, on inputs with at least one entity and a positive total
\* value: top_entities is the longest prefix of the entities in descending
\* value order whose cumulative share is <= 80%, top_entity_count is its
\* length and top_entity_value_percentage is the cumulative share of exactly
\* those entities, hence at most 80, also when top_entities is empty.
C26_ParetoPrefix ==
    (/\ ParetoReturned
     /\ FGt(Sum(Col(call.df, call.value_col)), Num(0)))
        => LET k == LongestPrefixWithin80
           IN  /\ ret.top_entities = [p \in 1..k |-> ret.entity_values[p].entity]
               /\ ret.top_entity_count = k
               /\ ret.top_entity_value_percentage
                     = IF k = 0 THEN Num(0) ELSE CumulativeShare(k)
               /\ FLe(ret.top_entity_value_percentage, Num(80))

(***************************************************************************)
(* Properties of etl_utils.main                                            *)
(***************************************************************************)
MainOrder ==
    <<"load_raw_data", "clean_impressions_data", "clean_clicks_data",
      "clean_conversions_data", "create_user_journey", "calculate_channel_metrics",
      "export_cleaned_data", "generate_data_quality_report">>

\* C25: the steps main has run are an initial part of the order load, clean
\* impressions, clean clicks, clean conversions, journey, metrics, export,
\* report; load_raw_data returns True exactly when the three files were read,
\* and a step after it has run only then; when a read failed, load_raw_data
\* returned False without raising, no later step has run, processed_data is
\* empty and nothing is exported.
C25_PipelineGating ==
    trace # <<>>
        => /\ trace = SubSeq(MainOrder, 1, Len(trace))
           /\ Len(trace) = 1 => ret = [status |-> "ok", value |-> call.unreadable = {}]
           /\ Len(trace) > 1
                 => /\ call.unreadable = {}
                    /\ DOMAIN raw_frames = {"impressions_df", "clicks_df", "conversions_df"}
           /\ call.unreadable # {}
                 => /\ trace = <<"load_raw_data">>
                    /\ ret = [status |-> "ok", value |-> FALSE]
                    /\ pc = "main_end"
                    /\ processed_data = <<>>
                    /\ exported = {}

\* C25 witness: a run of main on readable files with duplicated rows, which
\* ran the eight steps in order and exported the five tables.
C25_Witness ==
    /\ pc = "main_end"
    /\ trace = MainOrder
    /\ call.unreadable = {}
    /\ Len(call.files["raw_impressions.csv"]) = 2
    /\ Len(processed_data.impressions) = 1
    /\ exported = {"impressions", "clicks", "conversions", "user_journey", "channel_metrics"}

(***************************************************************************)
(* Properties of the analyzer across calls                                 *)
(***************************************************************************)
\* The table the caller passed, as it was when the call was made.
PassedTable ==
    CASE call.op = "budget_optimization" -> call.channel_metrics
      [] call.op = "attribution_comparison" -> call.journey_df
      [] call.op = "calculate_efficiency_scores" -> call.df

InOrAfterCall == pc \in {"comparing", "done"}

\* C19: after calculate_efficiency_scores, budget_optimization and
\* attribution_comparison with its four models, the caller's table has the
\* rows, columns and values it had before the call.
C19_InputTableUnchanged == InOrAfterCall => caller_table = PassedTable

\* C19 witness: a second call, an attribution comparison whose linear and
\* time-decay models weighted the rows of a two-touchpoint user, after a
\* budget optimization that clamped a channel, each leaving its table as it was.
C19_Witness ==
    /\ pc = "done" /\ call.op = "attribution_comparison"
    /\ Cardinality(UserRows(call.journey_df, 1)) = 2
    /\ results.linear["Email"] = Num(50)
    /\ caller_table = call.journey_df
    /\ previous # NoCall /\ previous.call.op = "budget_optimization"
    /\ previous.call.channel_metrics = ClampingMetrics
    /\ previous.ret.optimal_allocation = <<Num(500), Num(500)>>

\* What the call returns on an analyzer that has made no call before.
FirstCallReturn ==
    CASE call.op = "budget_optimization" ->
            budget_optimization(call.channel_metrics, call.total_budget, call.min_budget_pct)
      [] call.op = "calculate_efficiency_scores" -> calculate_efficiency_scores(call.df)
      [] call.op = "attribution_comparison" ->
            IF dataframe_ctor = "rejects" THEN [status |-> "raise", error |-> "ValueError"]
            ELSE [status |-> "ok",
                  value |-> stored_attribution_results(
                     [last_touch |->
                        _last_touch_attribution(call.journey_df, call.conversion_value_col),
                      first_touch |->
                        _first_touch_attribution(call.journey_df, call.conversion_value_col),
                      linear |->
                        _linear_attribution(call.journey_df, call.conversion_value_col),
                      time_decay |->
                        _time_decay_attribution(call.journey_df, call.conversion_value_col,
                                                decay_rate)])]

SecondCallDone == pc = "done" /\ previous # NoCall

====
